---- MODULE Spec2Model ----
(***************************************************************************)
(* Retrain scheduler of the restaurant recommender                         *)
(* (agent/chains/cf_model.py) together with the request path that fires it *)
(* (agent/chains/orchestrator.py), the interaction logger                  *)
(* (utils/logger.py) and the file effects of utils/train_cf.py.            *)
(*                                                                         *)
(* Request threads execute run_flow; each trigger check may start one      *)
(* daemon thread running _train_background.  Files are modelled by what    *)
(* the readers of the code can observe of them.                            *)
(***************************************************************************)
EXTENDS Integers, FiniteSets, Sequences, TLC

\* ------------------------------------------------------------------ bounds
\* Number of log_interaction calls explored in one behaviour.
MaxAppends == 1

\* Request threads (the web framework runs chat_submit on a thread pool);
\* each performs one run_flow.
NumRequests == 2

Requests == 1 .. NumRequests

\* Positive-row counts of the interaction log at process start.
InitPos == {0, 14}

\* Watermarks held by the metadata file at process start.
InitMeta == {5, 20}

\* run_flow calls followed through the ranking stages.
MaxFlows == 2

\* Runs of the command-line trainer beside the server.
MaxCliRuns == 1

\* Length of the candidate lists given to score_candidates.
MaxCands == 2

\* Calls of SimpleLinUCB.update on one model.
MaxUpdates == 2

\* Length of the candidate lists given to bandit_rerank.
MaxPool == 3

\* ------------------------------------------------------- program constants
\* bandit_rerank(..., top_k: int = 3)
BanditTopK == 3

\* run_flow(..., top_k: int = 5)
RunFlowTopK == 5

\* score_candidates(..., top_k: int = 3)
OnlineTopK == 3

\* threshold: int = 10
DefaultThreshold == 10

\* DEFAULT_ACTION_REWARD, in tenths
DEFAULT_ACTION_REWARD ==
    [impression |-> 0, view |-> 0, click |-> 1, like |-> 10, dislike |-> -5]

Actions == DOMAIN DEFAULT_ACTION_REWARD

\* Exceptions the training call can raise: the import of utils.train_cf,
\* the Mongo load, the empty-data checks, the library call.
TrainErrors == {"ImportError", "RuntimeError", "ValueError", "TypeError"}

\* ------------------------------------------------------------------- state
VARIABLES
    logFile,     \* data/interactions_log.csv: [kind, pos]
    metaFile,    \* data/cf_model_meta.json:   [state, count]
    modelFile,   \* data/cf_model.pkl:         [state, mtime, content]
    TRAINING,    \* _TRAINING
    lockOwner,   \* holder of _TRAIN_LOCK
    pc,          \* position of each request thread in run_flow
    pos,         \* trigger_retrain_if_needed: local pos
    last,        \* trigger_retrain_if_needed: local last
    path,        \* which return of trigger_retrain_if_needed was taken
    job,         \* the thread started by each request's trigger check
    appends,     \* number of log_interaction calls so far
    cf_model,    \* orchestrator.cf_model, the long-lived CFModel instance
    flow,        \* a run_flow call followed through its ranking stages
    cli,         \* a run of `python train_cf.py` beside the server
    online,      \* an OnlineCF instance and one score_candidates call
    call,        \* one call of a function without side effects
    linucb       \* a SimpleLinUCB instance and the updates applied to it

vars == <<logFile, metaFile, modelFile, TRAINING, lockOwner, pc, pos, last,
          path, job, appends, cf_model, flow, cli, online, call, linucb>>

\* The state of the ranking stages.
rankVars == <<cf_model, flow, cli, online, call, linucb>>

\* The state of the stand-alone function calls and of the bandit model.
calcVars == <<call, linucb>>

\* The state of the retrain scheduler.
schedVars == <<metaFile, TRAINING, lockOwner, pc, pos, last, path, job,
               appends>>

NoOwner == <<"none", 0>>

NoJob == [pc |-> "none", pos_count |-> 0, outcome |-> "pending",
          exc |-> "none", grown |-> FALSE]

\* Positions of a started thread that has not returned from _train_background.
Executing == {"train", "save_open", "save_dump", "finally", "reset"}

Launched(r) == job[r].pc # "none"

\* --------------------------------------------------------- pure functions
\* _load_meta: 0 for a missing file and for one json.load cannot parse.
_load_meta(meta) ==
    IF meta.state = "json" THEN meta.count ELSE 0

\* _count_positive can be evaluated: the file is absent or decodes as UTF-8.
CountReadable(log) == log.kind \in {"absent", "csv"}

\* _count_positive: rows whose reward column is > 0.
_count_positive(log) ==
    IF log.kind = "absent" THEN 0 ELSE log.pos

\* `if pos - last < threshold: return`
BelowThresholdOffByOne(p, l, threshold) == p - l <= threshold

BelowThreshold(p, l, threshold) == p - l < threshold

\* `except Exception`
ExceptCatchesValueErrorOnly(kind) == kind = "ValueError"

ExceptCatches(kind) == kind \in TrainErrors

\* train(log_path, model_path) binds its first positional argument to
\* train's first parameter, out_path.
TrainOutPath(log_path, model_path) == log_path

\* ------------------------------------------------- sequences and sorting
Take(s, n) == IF Len(s) <= n THEN s ELSE SubSeq(s, 1, n)

\* list.sort(key=lambda t: t[0], reverse=True) on a list of tuples whose
\* first component is the key: descending, equal keys keep their order.
\* Variant: an element is put before the elements with an equal key.
RECURSIVE InsertDescBeforeEqual(_, _)
InsertDescBeforeEqual(sorted, t) ==
    IF sorted = <<>> THEN <<t>>
    ELSE IF Head(sorted)[1] <= t[1]
         THEN <<t>> \o sorted
         ELSE <<Head(sorted)>> \o InsertDescBeforeEqual(Tail(sorted), t)

RECURSIVE InsertDesc(_, _)
InsertDesc(sorted, t) ==
    IF sorted = <<>> THEN <<t>>
    ELSE IF Head(sorted)[1] < t[1]
         THEN <<t>> \o sorted
         ELSE <<Head(sorted)>> \o InsertDesc(Tail(sorted), t)

RECURSIVE SortDesc(_)
SortDesc(s) ==
    IF s = <<>> THEN <<>>
    ELSE InsertDesc(SortDesc(SubSeq(s, 1, Len(s) - 1)), s[Len(s)])

\* sum(u * v for u, v in zip(uvec, ivec))
RECURSIVE Dot(_, _)
Dot(u, v) ==
    IF u = <<>> \/ v = <<>> THEN 0
    ELSE Head(u) * Head(v) + Dot(Tail(u), Tail(v))

\* ------------------------------------------------------ offline artifact
\* Payloads of data/cf_model.pkl.  "aligned" and "trained" have the shape
\* train() produces; "misaligned" has index offsets past its matrices.
Artifacts ==
    [aligned |->
        [user_index   |-> [u1 |-> 0],
         item_index   |-> [a |-> 0, b |-> 1],
         user_factors |-> << <<1, 2>> >>,
         item_factors |-> << <<3, 1>>, <<0, 2>> >>],
     misaligned |->
        [user_index   |-> [u1 |-> 0, u2 |-> 1],
         item_index   |-> [a |-> 0, b |-> 2],
         user_factors |-> << <<1, 2>> >>,
         item_factors |-> << <<3, 1>>, <<0, 2>> >>],
     trained |->
        [user_index   |-> [u1 |-> 0],
         item_index   |-> [a |-> 0, b |-> 1],
         user_factors |-> << <<1, 1>> >>,
         item_factors |-> << <<1, 0>>, <<2, 2>> >>],
     empty |->
        [user_index   |-> <<>>,
         item_index   |-> <<>>,
         user_factors |-> <<>>,
         item_factors |-> <<>>]]

\* Variant: _loaded is set whether or not the file exists.
CFModelNewAlwaysLoaded(file) ==
    [loaded |-> TRUE, mtime |-> file.mtime, content |-> file.content]

\* CFModel.__init__ followed by _load() at import of the orchestrator.
CFModelNew(file) ==
    IF file.state = "artifact"
    THEN [loaded |-> TRUE, mtime |-> file.mtime, content |-> file.content]
    ELSE [loaded |-> FALSE, mtime |-> -1, content |-> "empty"]

\* CFModel.available
available(cfm) == cfm.loaded

\* _ensure_fresh: `if not self._loaded or self._mtime != mtime`
NeedsLoad(cfm, mtime) == ~cfm.loaded \/ cfm.mtime # mtime

\* CFModel.score after its _ensure_fresh call.
ScoreLookup(cfm, user_id, item_id) ==
    IF ~cfm.loaded THEN 0
    ELSE LET art == Artifacts[cfm.content]
         IN IF \/ user_id \notin DOMAIN art.user_index
               \/ item_id \notin DOMAIN art.item_index
            THEN 0
            ELSE LET uidx == art.user_index[user_id]
                     iidx == art.item_index[item_id]
                 IN IF \/ uidx >= Len(art.user_factors)
                       \/ iidx >= Len(art.item_factors)
                    THEN 0
                    ELSE Dot(art.user_factors[uidx + 1],
                             art.item_factors[iidx + 1])

\* CFModel.rerank: cid = str(c.get("restaurant_id") or c.get("url") or "")
OfflineCandId(c) ==
    IF c.restaurant_id # "" THEN c.restaurant_id ELSE c.url

\* bandit._feature_vector: cf = candidate.get("cf_score") or 0.0
CfFeature(c) == IF c.cf_score = <<>> THEN 0 ELSE c.cf_score[1]

\* --------------------------------------------------------- online scorer
\* Rows of the interaction log are [user, item, reward], reward in tenths.
RowIndexes(rows) == 1 .. Len(rows)

\* OnlineCF._load keeps the rows with user, item and reward > 0.
PositiveRow(row) == row.user # "" /\ row.item # "" /\ row.reward > 0

\* self.user_items[user]
UserItems(rows, u) ==
    {rows[i].item : i \in {j \in RowIndexes(rows) :
                              PositiveRow(rows[j]) /\ rows[j].user = u}}

\* keys of self.user_items
LoggedUsers(rows) ==
    {rows[i].user : i \in {j \in RowIndexes(rows) : PositiveRow(rows[j])}}

\* self.item_popularity[item] += reward
RECURSIVE Popularity(_, _)
Popularity(rows, item) ==
    IF rows = <<>> THEN 0
    ELSE Popularity(SubSeq(rows, 1, Len(rows) - 1), item)
         + (IF PositiveRow(rows[Len(rows)]) /\ rows[Len(rows)].item = item
            THEN rows[Len(rows)].reward ELSE 0)

\* `cid in self.item_popularity`
HasPopularity(rows, item) ==
    \E i \in RowIndexes(rows) : PositiveRow(rows[i]) /\ rows[i].item = item

\* self.user_item_reward[user][item] = reward: the last positive row wins;
\* .get(cid, 0) gives 0 when there is none.
RECURSIVE UserItemReward(_, _, _)
UserItemReward(rows, u, item) ==
    IF rows = <<>> THEN 0
    ELSE LET row == rows[Len(rows)]
         IN IF PositiveRow(row) /\ row.user = u /\ row.item = item
            THEN row.reward
            ELSE UserItemReward(SubSeq(rows, 1, Len(rows) - 1), u, item)

\* Variant: the denominator is len(a) + len(b).
_jaccardOverSum(a, b) ==
    IF a = {} \/ b = {} THEN <<0, 1>>
    ELSE <<Cardinality(a \cap b), Cardinality(a) + Cardinality(b)>>

\* _jaccard as the fraction <<intersection, union>>; <<0, 1>> is 0.0.
_jaccard(a, b) ==
    IF a = {} \/ b = {} THEN <<0, 1>>
    ELSE <<Cardinality(a \cap b), Cardinality(a \cup b)>>

\* Scores are kept exactly, as integers in units of 1 / ScoreScale(rows):
\* every union has at most as many items as the log names.
RECURSIVE Factorial(_)
Factorial(n) == IF n <= 1 THEN 1 ELSE n * Factorial(n - 1)

ScoreScale(rows) ==
    100 * Factorial(Cardinality({rows[i].item : i \in RowIndexes(rows)}))

\* sim * r
SimTimesReward(rows, sim, r) ==
    (sim[1] * r * 10 * ScoreScale(rows)) \div (sim[2] * 100)

\* 0.1 * self.item_popularity[cid]
PopularityFallback(rows, cid) ==
    (Popularity(rows, cid) * ScoreScale(rows)) \div 100

\* sims: the other users with sim > 0
Neighbours(rows, user_id) ==
    {o \in LoggedUsers(rows) \ {user_id} :
        _jaccard(UserItems(rows, user_id), UserItems(rows, o))[1] > 0}

\* for other, sim in sims.items(): if r > 0: scores[cid] += sim * r
RECURSIVE NeighbourSumOver(_, _, _, _)
NeighbourSumOver(others, rows, user_id, cid) ==
    IF others = {} THEN 0
    ELSE LET o == CHOOSE x \in others : TRUE
             r == UserItemReward(rows, o, cid)
             sim == _jaccard(UserItems(rows, user_id), UserItems(rows, o))
         IN (IF r > 0 THEN SimTimesReward(rows, sim, r) ELSE 0)
            + NeighbourSumOver(others \ {o}, rows, user_id, cid)

NeighbourSum(rows, user_id, cid) ==
    NeighbourSumOver(Neighbours(rows, user_id), rows, user_id, cid)

\* str(i) for the positional fallback
IndexStr(i) == <<"0", "1", "2", "3">>[i + 1]

\* str(c.get("restaurant_id") or c.get("url") or i)
CandId(c, i) ==
    IF c.restaurant_id # "" THEN c.restaurant_id
    ELSE IF c.url # "" THEN c.url
    ELSE IndexStr(i)

CandIds(candidates) ==
    [i \in 1 .. Len(candidates) |-> CandId(candidates[i], i - 1)]

\* Position of a key in the dict `scores` (insertion order), 0 if absent.
KeyPos(scores, cid) ==
    IF \E i \in 1 .. Len(scores) : scores[i][2] = cid
    THEN CHOOSE i \in 1 .. Len(scores) : scores[i][2] = cid
    ELSE 0

\* The loop of lines 69-75 over cand_ids[1..n]; `scores` is the list of
\* <<score, cid>> in insertion order.  A repeated cid accumulates.
RECURSIVE ScoresDict(_, _, _, _)
ScoresDict(rows, user_id, cand_ids, n) ==
    IF n = 0 THEN <<>>
    ELSE LET before == ScoresDict(rows, user_id, cand_ids, n - 1)
             cid    == cand_ids[n]
             p      == KeyPos(before, cid)
             old    == IF p = 0 THEN 0 ELSE before[p][1]
             summed == old + NeighbourSum(rows, user_id, cid)
             final  == IF summed = 0 /\ HasPopularity(rows, cid)
                       THEN summed + PopularityFallback(rows, cid)
                       ELSE summed
         IN IF p = 0 THEN Append(before, <<final, cid>>)
            ELSE [before EXCEPT ![p] = <<final, cid>>]

\* id_to_candidate = {cid: c for cid, c in zip(cand_ids, candidates)}:
\* the last candidate with the id.
IdToCandidate(candidates, cid) ==
    LET ids == CandIds(candidates)
        i == CHOOSE k \in 1 .. Len(candidates) :
                 /\ ids[k] = cid
                 /\ \A m \in 1 .. Len(candidates) : ids[m] = cid => m <= k
    IN candidates[i]

\* Lines 82-85: `cand not in seen` hashes a dict, which raises TypeError on
\* the first pass of the loop over id_to_candidate.
ClosingLoopRaises(candidates) == Len(candidates) > 0

\* OnlineCF.score_candidates
score_candidates(rows, user_id, candidates, top_k) ==
    LET scores == ScoresDict(rows, user_id, CandIds(candidates),
                             Len(candidates))
        sorted == SortDesc(scores)
        ranked == [i \in 1 .. Len(sorted) |->
                     <<IdToCandidate(candidates, sorted[i][2]),
                       sorted[i][1]>>]
    IN IF ClosingLoopRaises(candidates)
       THEN [raised |-> TRUE, ranked |-> <<>>]
       ELSE [raised |-> FALSE, ranked |-> Take(ranked, top_k)]

\* cf_rerank: cand = dict(cand); cand["cf_score"] = score
AttachScores(ranked) ==
    [i \in 1 .. Len(ranked) |->
        [ranked[i][1] EXCEPT !.cf_score = <<ranked[i][2]>>]]

\* ------------------------------------------------- ranking stages: data
\* A candidate as run_retrieval builds it: no restaurant_id, a url that
\* may be empty, no cf_score yet.
Cand(rid, url) == [restaurant_id |-> rid, url |-> url, cf_score |-> <<>>]

\* Candidate pools returned by run_retrieval.
FlowPools ==
    {<<>>, <<Cand("", "a")>>, <<Cand("", "b"), Cand("", "a")>>,
     <<Cand("", "z"), Cand("", "b")>>,
     <<Cand("", "b"), Cand("", "z"), Cand("", "a")>>}

\* top_k of a run_flow call: its default, and one that cuts a pool short.
FlowTopKs == {2, RunFlowTopK}

\* user_id of a request: none, a user the artifacts know, one they do not.
FlowUsers == {"", "u1", "u9"}

FlowIdle ==
    [pc |-> "idle", user |-> "", pool |-> <<>>, i |-> 0, scored |-> <<>>,
     list |-> <<>>, scorer |-> "none", avail |-> FALSE, bandit |-> FALSE,
     exc |-> "none", calls |-> 0, stale |-> 0, read |-> "empty", k |-> 0]

CliIdle == [pc |-> "idle", runs |-> 0]

OnlineIdle ==
    [pc |-> "idle", rows |-> <<>>, user |-> "", cands |-> <<>>, k |-> 0,
     result |-> [raised |-> FALSE, ranked |-> <<>>]]

\* No function call in progress.
CallIdle == [fn |-> "none", pc |-> "idle"]

\* SimpleLinUCB.__init__ with dim = 5: A_diag = [1.0] * 5, b = [0.0] * 5.
\* b is kept in tenths.
SimpleLinUCBNew == [A_diag |-> <<1, 1, 1, 1, 1>>, b |-> <<0, 0, 0, 0, 0>>]

\* The model, the number of update calls, the arguments of the last one.
LinUCBIdle == [model |-> SimpleLinUCBNew, n |-> 0, x |-> <<>>, reward |-> 0]

Row(u, it, r) == [user |-> u, item |-> it, reward |-> r]

\* Contents of the interaction log as log_interaction writes them.
SampleLogs ==
    {<<>>,
     <<Row("u1", "a", 10), Row("u1", "b", 10), Row("u2", "b", 10),
       Row("u2", "c", 10)>>,
     <<Row("u1", "a", 10), Row("u2", "a", 10), Row("u2", "b", 1),
       Row("u3", "c", 10)>>,
     <<Row("u1", "a", 10), Row("u2", "a", 1), Row("u2", "a", 10),
       Row("u2", "b", -5)>>}

\* Number of rows _count_positive counts.
PositiveCount(rows) ==
    Cardinality({i \in RowIndexes(rows) : rows[i].reward > 0})

SampleCands ==
    {Cand("", "a"), Cand("", "b"), Cand("c", "x"), Cand("", "")}

RECURSIVE SeqsUpTo(_, _)
SeqsUpTo(S, n) ==
    IF n = 0 THEN {<<>>}
    ELSE LET shorter == SeqsUpTo(S, n - 1)
         IN shorter \cup {Append(q, x) : q \in shorter, x \in S}

OnlineUsers == {"u1", "u2", "u9"}

\* -------------------------------------------------------------------- Init
Init ==
    /\ logFile \in [kind : {"csv"}, pos : InitPos]
    /\ metaFile \in [state : {"json"}, count : InitMeta]
                    \cup {[state |-> "absent", count |-> 0]}
    /\ modelFile = [state |-> "absent", mtime |-> 0, content |-> "empty"]
    /\ TRAINING = FALSE
    /\ lockOwner = NoOwner
    /\ pc = [r \in Requests |-> "count"]
    /\ pos = [r \in Requests |-> 0]
    /\ last = [r \in Requests |-> 0]
    /\ path = [r \in Requests |-> "pending"]
    /\ job = [r \in Requests |-> NoJob]
    /\ appends = 0
    /\ cf_model = CFModelNew(modelFile)
    /\ flow = FlowIdle
    /\ cli = CliIdle
    /\ online = OnlineIdle
    /\ call = CallIdle
    /\ linucb = LinUCBIdle

\* ----------------------------------------------------------- environment
\* log_interaction(action, reward=0): the reward falls back to the action's
\* default; the row is appended ("a"), with a header if the file is new.
LogAppendResult(log, action) ==
    LET reward == DEFAULT_ACTION_REWARD[action]
        inc    == IF reward > 0 THEN 1 ELSE 0
    IN CASE log.kind = "absent" -> [kind |-> "csv", pos |-> inc]
         [] log.kind = "csv"    -> [kind |-> "csv", pos |-> log.pos + inc]
         [] OTHER               -> log

log_interaction ==
    /\ appends < MaxAppends
    /\ \E action \in Actions :
          /\ logFile' = LogAppendResult(logFile, action)
          /\ job' = [r \in Requests |->
                       IF /\ job[r].pc = "train"
                          /\ DEFAULT_ACTION_REWARD[action] > 0
                       THEN [job[r] EXCEPT !.grown = TRUE]
                       ELSE job[r]]
    /\ appends' = appends + 1
    /\ UNCHANGED <<metaFile, modelFile, TRAINING, lockOwner, pc, pos, last,
                   path>>
    /\ UNCHANGED rankVars

\* ------------------------------------------------------------- run_flow
\* parse_input, then trigger_retrain_if_needed():
\* pos = _count_positive(LOG_PATH); a file that does not decode raises out
\* of trigger_retrain_if_needed and out of run_flow.
TriggerCount(r) ==
    /\ pc[r] = "count"
    /\ IF CountReadable(logFile)
       THEN /\ pos' = [pos EXCEPT ![r] = _count_positive(logFile)]
            /\ pc' = [pc EXCEPT ![r] = "meta"]
            /\ path' = path
       ELSE /\ pc' = [pc EXCEPT ![r] = "raised"]
            /\ path' = [path EXCEPT ![r] = "count_error"]
            /\ pos' = pos
    /\ UNCHANGED <<logFile, metaFile, modelFile, TRAINING, lockOwner, last,
                   job, appends>>
    /\ UNCHANGED rankVars

\* last = _load_meta(META_PATH); if pos - last < threshold: return
TriggerLoadMeta(r, threshold) ==
    /\ pc[r] = "meta"
    /\ last' = [last EXCEPT ![r] = _load_meta(metaFile)]
    /\ IF BelowThreshold(pos[r], last'[r], threshold)
       THEN /\ path' = [path EXCEPT ![r] = "below"]
            /\ pc' = [pc EXCEPT ![r] = "rank"]
       ELSE /\ path' = path
            /\ pc' = [pc EXCEPT ![r] = "lock"]
    /\ UNCHANGED <<logFile, metaFile, modelFile, TRAINING, lockOwner, pos,
                   job, appends>>
    /\ UNCHANGED rankVars

\* with _TRAIN_LOCK: (acquire)
TriggerAcquire(r) ==
    /\ pc[r] = "lock"
    /\ lockOwner = NoOwner
    /\ lockOwner' = <<"req", r>>
    /\ pc' = [pc EXCEPT ![r] = "flip"]
    /\ UNCHANGED <<logFile, metaFile, modelFile, TRAINING, pos, last, path,
                   job, appends>>
    /\ UNCHANGED rankVars

\* Variant: the flag is tested but never set.
TriggerFlipNoSet(r) ==
    /\ pc[r] = "flip"
    /\ lockOwner = <<"req", r>>
    /\ IF TRAINING
       THEN /\ path' = [path EXCEPT ![r] = "busy"]
            /\ pc' = [pc EXCEPT ![r] = "rank"]
       ELSE /\ path' = [path EXCEPT ![r] = "launch"]
            /\ pc' = [pc EXCEPT ![r] = "start"]
    /\ TRAINING' = TRAINING
    /\ lockOwner' = NoOwner
    /\ UNCHANGED <<logFile, metaFile, modelFile, pos, last, job, appends>>
    /\ UNCHANGED rankVars

\* Variant: a check that finds the flag set goes on to start a thread.
TriggerFlipIgnoreBusy(r) ==
    /\ pc[r] = "flip"
    /\ lockOwner = <<"req", r>>
    /\ path' = [path EXCEPT ![r] = IF TRAINING THEN "busy" ELSE "launch"]
    /\ pc' = [pc EXCEPT ![r] = "start"]
    /\ TRAINING' = TRUE
    /\ lockOwner' = NoOwner
    /\ UNCHANGED <<logFile, metaFile, modelFile, pos, last, job, appends>>
    /\ UNCHANGED rankVars

\* if _TRAINING: return / _TRAINING = True; the lock is released on leaving
\* the with block either way.
TriggerFlip(r) ==
    /\ pc[r] = "flip"
    /\ lockOwner = <<"req", r>>
    /\ IF TRAINING
       THEN /\ path' = [path EXCEPT ![r] = "busy"]
            /\ pc' = [pc EXCEPT ![r] = "rank"]
            /\ TRAINING' = TRAINING
       ELSE /\ path' = [path EXCEPT ![r] = "launch"]
            /\ pc' = [pc EXCEPT ![r] = "start"]
            /\ TRAINING' = TRUE
    /\ lockOwner' = NoOwner
    /\ UNCHANGED <<logFile, metaFile, modelFile, pos, last, job, appends>>
    /\ UNCHANGED rankVars

\* Variant: the thread body runs under _TRAIN_LOCK from its first statement.
TriggerStartLocked(r) ==
    /\ pc[r] = "start"
    /\ lockOwner = NoOwner
    /\ lockOwner' = <<"job", r>>
    /\ job' = [job EXCEPT ![r] = [NoJob EXCEPT !.pc = "train",
                                               !.pos_count = pos[r]]]
    /\ pc' = [pc EXCEPT ![r] = "rank"]
    /\ UNCHANGED <<logFile, metaFile, modelFile, TRAINING, pos, last, path,
                   appends>>
    /\ UNCHANGED rankVars

\* Variant: the caller joins the thread it started.
TriggerStartJoin(r) ==
    /\ pc[r] = "start"
    /\ job' = [job EXCEPT ![r] = [NoJob EXCEPT !.pc = "train",
                                               !.pos_count = pos[r]]]
    /\ pc' = [pc EXCEPT ![r] = "join"]
    /\ UNCHANGED <<logFile, metaFile, modelFile, TRAINING, lockOwner, pos,
                   last, path, appends>>
    /\ UNCHANGED rankVars

\* t = threading.Thread(target=_train_background, args=(..., pos),
\* daemon=True); t.start(); the caller returns without joining.
TriggerStart(r) ==
    /\ pc[r] = "start"
    /\ job' = [job EXCEPT ![r] = [NoJob EXCEPT !.pc = "train",
                                               !.pos_count = pos[r]]]
    /\ pc' = [pc EXCEPT ![r] = "rank"]
    /\ UNCHANGED <<logFile, metaFile, modelFile, TRAINING, lockOwner, pos,
                   last, path, appends>>
    /\ UNCHANGED rankVars

\* run_retrieval, CF rerank, bandit_rerank, format_answer, return.
Rank(r) ==
    /\ pc[r] = "rank"
    /\ pc' = [pc EXCEPT ![r] = "returned"]
    /\ UNCHANGED <<logFile, metaFile, modelFile, TRAINING, lockOwner, pos,
                   last, path, job, appends>>
    /\ UNCHANGED rankVars

\* ---------------------------------------------------- _train_background
\* Variant: the flag is reset at the end of the try block, not in finally.
TrainRaiseNoFinally(r) ==
    /\ job[r].pc = "train"
    /\ \E e \in TrainErrors :
          job' = [job EXCEPT ![r].pc = "done", ![r].outcome = "raised",
                             ![r].exc = IF ExceptCatches(e)
                                        THEN "none" ELSE e]
    /\ UNCHANGED <<logFile, metaFile, modelFile, TRAINING, lockOwner, pc,
                   pos, last, path, appends>>
    /\ UNCHANGED rankVars

\* Variant: _save_meta is called in the finally block.
TrainRaiseThenSave(r) ==
    /\ job[r].pc = "train"
    /\ \E e \in TrainErrors :
          job' = [job EXCEPT ![r].pc = "save_open", ![r].outcome = "raised",
                             ![r].exc = IF ExceptCatches(e)
                                        THEN "none" ELSE e]
    /\ UNCHANGED <<logFile, metaFile, modelFile, TRAINING, lockOwner, pc,
                   pos, last, path, appends>>
    /\ UNCHANGED rankVars

\* The import or train() raises; `except Exception: pass` handles it and
\* control reaches the finally block.  An exception the handler does not
\* match stays pending.
TrainRaise(r) ==
    /\ job[r].pc = "train"
    /\ \E e \in TrainErrors :
          job' = [job EXCEPT ![r].pc = "finally", ![r].outcome = "raised",
                             ![r].exc = IF ExceptCatches(e)
                                        THEN "none" ELSE e]
    /\ UNCHANGED <<logFile, metaFile, modelFile, TRAINING, lockOwner, pc,
                   pos, last, path, appends>>
    /\ UNCHANGED rankVars

\* train() returns: its last effect is
\* with out_path.open("wb") as f: pickle.dump(payload, f)
TrainReturn(r) ==
    /\ job[r].pc = "train"
    /\ IF TrainOutPath("LOG_PATH", "MODEL_PATH") = "LOG_PATH"
       THEN /\ logFile' = [kind |-> "pickle", pos |-> 0]
            /\ modelFile' = modelFile
       ELSE /\ modelFile' = [state |-> "artifact",
                             mtime |-> modelFile.mtime + 1,
                             content |-> "trained"]
            /\ logFile' = logFile
    /\ job' = [job EXCEPT ![r].pc = "save_open", ![r].outcome = "ok"]
    /\ UNCHANGED <<metaFile, TRAINING, lockOwner, pc, pos, last, path,
                   appends>>
    /\ UNCHANGED rankVars

\* _save_meta: meta_path.open("w") truncates the file ...
SaveMetaOpen(r) ==
    /\ job[r].pc = "save_open"
    /\ metaFile' = [state |-> "truncated", count |-> 0]
    /\ job' = [job EXCEPT ![r].pc = "save_dump"]
    /\ UNCHANGED <<logFile, modelFile, TRAINING, lockOwner, pc, pos, last,
                   path, appends>>
    /\ UNCHANGED rankVars

\* Variant: the count written is the one on disk when training ends.
SaveMetaDumpCurrentCount(r) ==
    /\ job[r].pc = "save_dump"
    /\ metaFile' = [state |-> "json", count |-> _count_positive(logFile)]
    /\ job' = [job EXCEPT ![r].pc = "finally"]
    /\ UNCHANGED <<logFile, modelFile, TRAINING, lockOwner, pc, pos, last,
                   path, appends>>
    /\ UNCHANGED rankVars

\* ... and json.dump({"trained_pos_count": count}, f) fills it on close.
SaveMetaDump(r) ==
    /\ job[r].pc = "save_dump"
    /\ metaFile' = [state |-> "json", count |-> job[r].pos_count]
    /\ job' = [job EXCEPT ![r].pc = "finally"]
    /\ UNCHANGED <<logFile, modelFile, TRAINING, lockOwner, pc, pos, last,
                   path, appends>>
    /\ UNCHANGED rankVars

\* finally: with _TRAIN_LOCK: (acquire)
JobAcquire(r) ==
    /\ job[r].pc = "finally"
    /\ lockOwner = NoOwner
    /\ lockOwner' = <<"job", r>>
    /\ job' = [job EXCEPT ![r].pc = "reset"]
    /\ UNCHANGED <<logFile, metaFile, modelFile, TRAINING, pc, pos, last,
                   path, appends>>
    /\ UNCHANGED rankVars

\* _TRAINING = False, release; an exception still pending leaves the thread.
JobReset(r) ==
    /\ job[r].pc = "reset"
    /\ lockOwner = <<"job", r>>
    /\ TRAINING' = FALSE
    /\ lockOwner' = NoOwner
    /\ job' = [job EXCEPT ![r].pc = "done"]
    /\ UNCHANGED <<logFile, metaFile, modelFile, pc, pos, last, path,
                   appends>>
    /\ UNCHANGED rankVars

\* ------------------------------------------------------------------- Next
RequestStep(r) ==
    \/ TriggerCount(r)
    \/ TriggerLoadMeta(r, DefaultThreshold)
    \/ TriggerAcquire(r)
    \/ TriggerFlip(r)
    \/ TriggerStart(r)
    \/ Rank(r)

Next ==
    \/ log_interaction
    \/ \E r \in Requests : TriggerCount(r)
    \/ \E r \in Requests : TriggerLoadMeta(r, DefaultThreshold)
    \/ \E r \in Requests : TriggerAcquire(r)
    \/ \E r \in Requests : TriggerFlip(r)
    \/ \E r \in Requests : TriggerStart(r)
    \/ \E r \in Requests : Rank(r)
    \/ \E r \in Requests : TrainRaise(r)
    \/ \E r \in Requests : TrainReturn(r)
    \/ \E r \in Requests : SaveMetaOpen(r)
    \/ \E r \in Requests : SaveMetaDump(r)
    \/ \E r \in Requests : JobAcquire(r)
    \/ \E r \in Requests : JobReset(r)

Spec == Init /\ [][Next]_vars

\* The request path and whoever holds the lock are scheduled; nothing
\* bounds the duration of train().
LiveSpec ==
    /\ Spec
    /\ \A r \in Requests : WF_vars(RequestStep(r))
    /\ \A r \in Requests : WF_vars(JobReset(r))

\* ------------------------------------------------------- online scorer
\* The retrain scheduler at rest: no request in the trigger check, no thread.
SchedulerAtRest ==
    /\ metaFile = [state |-> "absent", count |-> 0]
    /\ TRAINING = FALSE
    /\ lockOwner = NoOwner
    /\ pc = [r \in Requests |-> "count"]
    /\ pos = [r \in Requests |-> 0]
    /\ last = [r \in Requests |-> 0]
    /\ path = [r \in Requests |-> "pending"]
    /\ job = [r \in Requests |-> NoJob]
    /\ appends = 0

\* An OnlineCF instance loaded from a log, and the arguments of one call.
OnlineInit ==
    /\ SchedulerAtRest
    /\ logFile = [kind |-> "csv", pos |-> 0]
    /\ modelFile = [state |-> "absent", mtime |-> 0, content |-> "empty"]
    /\ cf_model = CFModelNew(modelFile)
    /\ flow = FlowIdle
    /\ cli = CliIdle
    /\ online \in [pc : {"ready"}, rows : SampleLogs, user : OnlineUsers,
                   cands : SeqsUpTo(SampleCands, MaxCands),
                   k : {1, OnlineTopK},
                   result : {[raised |-> FALSE, ranked |-> <<>>]}]
    /\ call = CallIdle
    /\ linucb = LinUCBIdle

\* model.score_candidates(user_id, candidates, top_k=k)
ScoreCandidatesCall ==
    /\ online.pc = "ready"
    /\ online' = [online EXCEPT
                    !.pc = "done",
                    !.result = score_candidates(online.rows, online.user,
                                                online.cands, online.k)]
    /\ UNCHANGED <<logFile, modelFile, schedVars, cf_model, flow, cli,
                   calcVars>>

OnlineNext == ScoreCandidatesCall

OnlineSpec == OnlineInit /\ [][OnlineNext]_vars

\* ------------------------------------------------------ ranking stages
\* A read is stale when a complete artifact is on disk and the in-memory
\* state was not taken from it.
Stale(cfm, file) ==
    /\ file.state = "artifact"
    /\ \/ ~cfm.loaded
       \/ cfm.mtime # file.mtime
       \/ cfm.content # file.content

\* dict.get(key) or 0.0 for a number held as <<>> (None) or <<v>>: a
\* missing key, None and 0 all give 0.
GetNumber(c, key) ==
    IF key \notin DOMAIN c THEN 0
    ELSE IF c[key] = <<>> THEN 0
    ELSE c[key][1]

\* A price_range string: "" ("empty"), one without "-" ("text"), one with
\* "-" whose parts float() rejects ("malformed"), or "lo-hi" ("range").
PriceString(kind, lo, hi) == [kind |-> kind, lo |-> lo, hi |-> hi]

\* Lines 19-27: price_min, price_max; 0.0, 0.0 unless both parts parse.
ParsePriceRange(c) ==
    IF "price_range" \notin DOMAIN c THEN <<0, 0>>
    ELSE IF c.price_range.kind = "range"
         THEN <<c.price_range.lo, c.price_range.hi>>
         ELSE <<0, 0>>

\* query.get("price_range") or {}, then .get("min") or 0.0, .get("max") or
\* 0.0: a query is [price_range |-> [min, max]] with <<>> for None.
UserPrice(query) ==
    <<GetNumber(query.price_range, "min"), GetNumber(query.price_range, "max")>>

\* Variant: only the first conflict test is made.
PriceFitFirstTestOnly(c, query) ==
    LET price_min == ParsePriceRange(c)[1]
        price_max == ParsePriceRange(c)[2]
        up_min == UserPrice(query)[1]
        up_max == UserPrice(query)[2]
    IN IF up_min # 0 \/ up_max # 0
       THEN IF up_min # 0 /\ price_max # 0 /\ price_max < up_min
            THEN -1
            ELSE 1
       ELSE 0

\* Lines 29-38: price_fit, with Python truthiness (0 and None are false).
PriceFit(c, query) ==
    LET price_min == ParsePriceRange(c)[1]
        price_max == ParsePriceRange(c)[2]
        up_min == UserPrice(query)[1]
        up_max == UserPrice(query)[2]
    IN IF up_min # 0 \/ up_max # 0
       THEN IF up_min # 0 /\ price_max # 0 /\ price_max < up_min
            THEN -1
            ELSE IF up_max # 0 /\ price_min # 0 /\ price_min > up_max
                 THEN -1
                 ELSE 1
       ELSE 0

\* _feature_vector: [1 (bias), rating, -distance, price_fit, cf_score]
FeatureVector(c, query) ==
    <<1, GetNumber(c, "rating"), -GetNumber(c, "distance_km"),
      PriceFit(c, query), CfFeature(c)>>

\* A parsed query that asks for no price.
NoPriceQuery == [price_range |-> [min |-> <<>>, max |-> <<>>]]

\* Variant: the confidence term sums the features, not their squares.
FreshScoreSquaredSum(x) == x[1] + x[2] + x[3] + x[4] + x[5]

\* SimpleLinUCB().score(x) squared: a fresh model has b = 0 and A_diag = 1,
\* so theta = 0 and the score is sqrt(sum(x_i ** 2)); the order of two
\* scores is the order of the sums.
FreshScoreSquared(x) ==
    x[1] * x[1] + x[2] * x[2] + x[3] * x[3] + x[4] * x[4] + x[5] * x[5]

\* bandit_rerank with a fresh model: score, stable descending sort, the
\* first top_k.
bandit_rerank(candidates, query, top_k) ==
    LET scored == [i \in 1 .. Len(candidates) |->
                      <<FreshScoreSquared(FeatureVector(candidates[i], query)),
                        candidates[i]>>]
        sorted == Take(SortDesc(scored), top_k)
    IN [i \in 1 .. Len(sorted) |-> sorted[i][2]]

\* CFModel.rerank after its loop: sort by score, first top_k, the dicts.
RerankResult(scored, top_k) ==
    LET sorted == Take(SortDesc(scored), top_k)
    IN [i \in 1 .. Len(sorted) |-> sorted[i][2]]

\* Control returns from _ensure_fresh with the in-memory model cfm: at the
\* head of rerank (i = 0) the loop starts; inside score() for candidate i
\* the lookup is made, cf_score attached, and the loop goes on or ends.
AfterFresh(f, cfm, file) ==
    IF f.i = 0
    THEN IF f.pool = <<>>
         THEN [f EXCEPT !.pc = "bandit", !.list = <<>>]
         ELSE [f EXCEPT !.pc = "fresh", !.i = 1]
    ELSE LET c == f.pool[f.i]
             s == ScoreLookup(cfm, f.user, OfflineCandId(c))
             scored == Append(f.scored, <<s, [c EXCEPT !.cf_score = <<s>>]>>)
             g == [f EXCEPT !.stale = @ + (IF Stale(cfm, file) THEN 1 ELSE 0)]
         IN IF f.i = Len(f.pool)
            THEN [g EXCEPT !.pc = "bandit", !.scored = scored,
                           !.list = RerankResult(scored, f.k)]
            ELSE [g EXCEPT !.pc = "fresh", !.i = @ + 1, !.scored = scored]

\* The server imports the orchestrator with the artifact absent or present.
ScorerInit ==
    /\ SchedulerAtRest
    /\ logFile \in [kind : {"csv"}, pos : {0, 4}]
    /\ modelFile \in [state : {"artifact"}, mtime : {0},
                      content : {"aligned", "misaligned"}]
                     \cup {[state |-> "absent", mtime |-> 0,
                            content |-> "empty"]}
    /\ cf_model = CFModelNew(modelFile)
    /\ flow = FlowIdle
    /\ cli = CliIdle
    /\ online = OnlineIdle
    /\ call = CallIdle
    /\ linucb = LinUCBIdle

\* run_flow up to the retrieval: the trigger check finds the growth below
\* the threshold and returns; run_retrieval gives the pool.
FlowBegin(user_id, restaurants, top_k) ==
    /\ flow.pc \in {"idle", "returned", "raised"}
    /\ flow.calls < MaxFlows
    /\ CountReadable(logFile)
    /\ BelowThreshold(_count_positive(logFile), _load_meta(metaFile),
                      DefaultThreshold)
    /\ flow' = [FlowIdle EXCEPT !.pc = "branch", !.user = user_id,
                                !.pool = restaurants, !.list = restaurants,
                                !.k = top_k,
                                !.calls = flow.calls + 1,
                                !.stale = flow.stale]
    /\ UNCHANGED <<logFile, modelFile, schedVars, cf_model, cli, online,
                   calcVars>>

\* `if user_id:` and `if cf_model.available():`
FlowBranch ==
    /\ flow.pc = "branch"
    /\ flow' =
         IF flow.user = ""
         THEN [flow EXCEPT !.pc = "bandit", !.scorer = "none"]
         ELSE LET f == [flow EXCEPT
                          !.avail = available(cf_model),
                          !.stale = @ + (IF Stale(cf_model, modelFile)
                                         THEN 1 ELSE 0)]
              IN IF available(cf_model)
                 THEN [f EXCEPT !.pc = "fresh", !.scorer = "offline",
                                !.i = 0, !.scored = <<>>]
                 ELSE [f EXCEPT !.pc = "online", !.scorer = "online"]
    /\ UNCHANGED <<logFile, modelFile, schedVars, cf_model, cli, online,
                   calcVars>>

\* _ensure_fresh: stat; a missing file returns; a reload is needed or not.
EnsureFresh ==
    /\ flow.pc = "fresh"
    /\ flow' =
         IF modelFile.state = "absent"
         THEN AfterFresh(flow, cf_model, modelFile)
         ELSE IF NeedsLoad(cf_model, modelFile.mtime)
              THEN [flow EXCEPT !.pc = "load"]
              ELSE AfterFresh(flow, cf_model, modelFile)
    /\ UNCHANGED <<logFile, modelFile, schedVars, cf_model, cli, online,
                   calcVars>>

\* _load: exists(), open("rb"), pickle.load.  A truncated file makes
\* pickle.load raise EOFError, which nothing up to run_flow's caller catches.
LoadRead ==
    /\ flow.pc = "load"
    /\ flow' =
         IF modelFile.state = "absent"
         THEN AfterFresh(flow, cf_model, modelFile)
         ELSE IF modelFile.state = "partial"
              THEN [flow EXCEPT !.pc = "raised", !.exc = "EOFError"]
              ELSE [flow EXCEPT !.pc = "load_stat",
                                !.read = modelFile.content]
    /\ UNCHANGED <<logFile, modelFile, schedVars, cf_model, cli, online,
                   calcVars>>

\* _load: the fields are set, then self._mtime = self.path.stat().st_mtime.
LoadStat ==
    /\ flow.pc = "load_stat"
    /\ cf_model' = [loaded |-> TRUE, mtime |-> modelFile.mtime,
                    content |-> flow.read]
    /\ flow' = AfterFresh(flow, cf_model', modelFile)
    /\ UNCHANGED <<logFile, modelFile, schedVars, cli, online, calcVars>>

\* cf_rerank: OnlineCF() reads the log, score_candidates, cf_score attached.
OnlineRerank ==
    /\ flow.pc = "online"
    /\ \E rows \in SampleLogs :
          /\ PositiveCount(rows) = _count_positive(logFile)
          /\ flow' =
               IF ~CountReadable(logFile)
               THEN [flow EXCEPT !.pc = "raised",
                                 !.exc = "UnicodeDecodeError"]
               ELSE LET res == score_candidates(rows, flow.user, flow.pool,
                                                flow.k)
                    IN IF res.raised
                       THEN [flow EXCEPT !.pc = "raised",
                                         !.exc = "TypeError"]
                       ELSE [flow EXCEPT !.pc = "bandit",
                                         !.list = AttachScores(res.ranked)]
    /\ UNCHANGED <<logFile, modelFile, schedVars, cf_model, cli, online,
                   calcVars>>

\* bandit_rerank(restaurants, parsed, top_k=top_k, model=SimpleLinUCB())
\* and the return of run_flow.  The candidates of a pool carry no price, so
\* the parsed query's price gives all of them the same price_fit.
Bandit ==
    /\ flow.pc = "bandit"
    /\ flow' = [flow EXCEPT !.pc = "returned", !.bandit = TRUE,
                            !.list = bandit_rerank(flow.list, NoPriceQuery,
                                                   flow.k)]
    /\ UNCHANGED <<logFile, modelFile, schedVars, cf_model, cli, online,
                   calcVars>>

\* `python train_cf.py`: train() reaches out_path.open("wb"), which
\* truncates data/cf_model.pkl in place.
CliOpen ==
    /\ cli.pc = "idle"
    /\ cli.runs < MaxCliRuns
    /\ modelFile' = [state |-> "partial", mtime |-> modelFile.mtime + 1,
                     content |-> "empty"]
    /\ cli' = [cli EXCEPT !.pc = "dump"]
    /\ UNCHANGED <<logFile, schedVars, cf_model, flow, online, calcVars>>

\* pickle.dump(payload, f) and the close: the artifact is complete.
CliDump ==
    /\ cli.pc = "dump"
    /\ modelFile' = [state |-> "artifact", mtime |-> modelFile.mtime + 1,
                     content |-> "trained"]
    /\ cli' = [pc |-> "idle", runs |-> cli.runs + 1]
    /\ flow' = [flow EXCEPT !.stale = 0]
    /\ UNCHANGED <<logFile, schedVars, cf_model, online, calcVars>>

ScorerNext ==
    \/ \E u \in FlowUsers, rs \in FlowPools, k \in FlowTopKs :
          FlowBegin(u, rs, k)
    \/ FlowBranch
    \/ EnsureFresh
    \/ LoadRead
    \/ LoadStat
    \/ OnlineRerank
    \/ Bandit
    \/ CliOpen
    \/ CliDump

ScorerSpec == ScorerInit /\ [][ScorerNext]_vars

\* --------------------------------------------------------- function calls
\* Items that sets of liked restaurants are drawn from.
JaccardItems == {"a", "b", "c"}

\* A candidate with the fields _feature_vector reads.
BanditCand(url, rating, distance_km, price_range, cf_score) ==
    [restaurant_id |-> "", url |-> url, rating |-> <<rating>>,
     distance_km |-> <<distance_km>>, price_range |-> price_range,
     cf_score |-> cf_score]

\* price_range strings of candidates.
PriceStrings ==
    {PriceString("empty", 0, 0), PriceString("text", 0, 0),
     PriceString("malformed", 0, 0), PriceString("range", 0, 0),
     PriceString("range", 2, 5), PriceString("range", 5, 9)}

\* min and max of the price a query asks for: None or a number.
UserBounds == {<<>>, <<0>>, <<3>>, <<6>>}

FeatureCalls ==
    [fn : {"feature"}, pc : {"ready"},
     c : {BanditCand("a", 4, d, p, cf) :
             d \in {0, 2}, p \in PriceStrings, cf \in {<<>>, <<3>>}},
     query : [price_range : [min : UserBounds, max : UserBounds]],
     out : {<<>>}]

\* Candidates given to bandit_rerank: two that differ in distance only,
\* two with equal sums of squares, one with a cf_score, one with a price.
BanditSamples ==
    {BanditCand("a", 4, 0, PriceString("empty", 0, 0), <<>>),
     BanditCand("a", 4, 2, PriceString("empty", 0, 0), <<>>),
     BanditCand("d", 0, 4, PriceString("empty", 0, 0), <<>>),
     BanditCand("b", 0, 0, PriceString("empty", 0, 0), <<3>>),
     BanditCand("c", 4, 2, PriceString("range", 5, 9), <<>>)}

\* Lists without repeats.
Distinct(q) == \A i, j \in 1 .. Len(q) : q[i] = q[j] => i = j

BanditCalls ==
    [fn : {"bandit"}, pc : {"ready"},
     cands : {q \in SeqsUpTo(BanditSamples, MaxPool) : Distinct(q)},
     query : {NoPriceQuery, [price_range |-> [min |-> <<>>, max |-> <<3>>]]},
     k : {2, BanditTopK},
     out : {<<>>}]

\* A coordinate of the user or of a restaurant: None or a grid position.
Coordinates == {<<>>, <<1>>, <<3>>}

Abs(n) == IF n < 0 THEN -n ELSE n

\* Stand-in for _haversine_km on grid positions: 0 for the same point,
\* positive otherwise.
GridDistance(lat1, lng1, lat2, lng2) == Abs(lat1 - lat2) + Abs(lng1 - lng2)

\* retrieve_restaurants, lines 169-179: dist stays None unless the user's
\* lat and lng are given and float() accepts the restaurant's.
ComputedDistance(user_loc, meta) ==
    IF user_loc.lat # <<>> /\ user_loc.lng # <<>>
    THEN IF meta.latitude # <<>> /\ meta.longitude # <<>>
         THEN <<GridDistance(user_loc.lat[1], user_loc.lng[1],
                             meta.latitude[1], meta.longitude[1])>>
         ELSE <<>>
    ELSE <<>>

\* _build_output_item: every number is a float, 0.0 where the source has
\* none; price_range is always "".
_build_output_item(meta, distance_km) ==
    [restaurant_id |-> "",
     url |-> meta.detail_url,
     lat |-> IF meta.latitude = <<>> THEN <<0>> ELSE meta.latitude,
     lng |-> IF meta.longitude = <<>> THEN <<0>> ELSE meta.longitude,
     rating |-> IF meta.avg_rating = <<>> THEN <<0>> ELSE meta.avg_rating,
     price_range |-> PriceString("empty", 0, 0),
     distance_km |-> IF distance_km # <<>> THEN distance_km ELSE <<0>>,
     cf_score |-> <<>>]

RetrieveCalls ==
    [fn : {"retrieve"}, pc : {"ready"},
     user_loc : [lat : Coordinates, lng : Coordinates],
     meta : [detail_url : {"a"}, latitude : Coordinates,
             longitude : Coordinates, avg_rating : {<<>>, <<4>>}],
     out : {<<>>}]

JaccardCalls ==
    [fn : {"jaccard"}, pc : {"ready"}, a : SUBSET JaccardItems,
     b : SUBSET JaccardItems, out : {<<0, 1>>}]

\* The arguments of one call of a function that has no side effects.
CallInit ==
    /\ SchedulerAtRest
    /\ logFile = [kind |-> "csv", pos |-> 0]
    /\ modelFile = [state |-> "absent", mtime |-> 0, content |-> "empty"]
    /\ cf_model = CFModelNew(modelFile)
    /\ flow = FlowIdle
    /\ cli = CliIdle
    /\ online = OnlineIdle
    /\ linucb = LinUCBIdle
    /\ call \in JaccardCalls \cup FeatureCalls \cup BanditCalls
                \cup RetrieveCalls

\* OnlineCF._jaccard(a, b)
JaccardCall ==
    /\ call.fn = "jaccard"
    /\ call.pc = "ready"
    /\ call' = [call EXCEPT !.pc = "done", !.out = _jaccard(call.a, call.b)]
    /\ UNCHANGED <<logFile, modelFile, schedVars, cf_model, flow, cli,
                   online, linucb>>

\* _feature_vector(candidate, query)
FeatureVectorCall ==
    /\ call.fn = "feature"
    /\ call.pc = "ready"
    /\ call' = [call EXCEPT !.pc = "done",
                            !.out = FeatureVector(call.c, call.query)]
    /\ UNCHANGED <<logFile, modelFile, schedVars, cf_model, flow, cli,
                   online, linucb>>

\* bandit_rerank(candidates, query, model=SimpleLinUCB(), top_k=k)
BanditRerankCall ==
    /\ call.fn = "bandit"
    /\ call.pc = "ready"
    /\ call' = [call EXCEPT !.pc = "done",
                            !.out = bandit_rerank(call.cands, call.query,
                                                  call.k)]
    /\ UNCHANGED <<logFile, modelFile, schedVars, cf_model, flow, cli,
                   online, linucb>>

\* retrieve_restaurants for one restaurant that passed the filters.
RetrieveCall ==
    /\ call.fn = "retrieve"
    /\ call.pc = "ready"
    /\ call' = [call EXCEPT
                  !.pc = "done",
                  !.out = _build_output_item(
                              call.meta,
                              ComputedDistance(call.user_loc, call.meta))]
    /\ UNCHANGED <<logFile, modelFile, schedVars, cf_model, flow, cli,
                   online, linucb>>

CallNext ==
    \/ JaccardCall
    \/ FeatureVectorCall
    \/ BanditRerankCall
    \/ RetrieveCall

CallSpec == CallInit /\ [][CallNext]_vars

\* ------------------------------------------------------------ SimpleLinUCB
Dims == 1 .. 5

\* The bias-only feature vector.
BiasOnly == <<1, 0, 0, 0, 0>>

\* Feature vectors given to update.
UpdateVectors == {BiasOnly, <<1, 4, -2, 1, 3>>, <<1, 0, -1, -1, 0>>}

\* Rewards given to update, in tenths.
UpdateRewards == {-5, 1, 5, 6, 10}

\* Variant: A_diag grows by x_i, not by its square.
UpdateLinear(model, x, reward) ==
    [A_diag |-> [i \in Dims |-> model.A_diag[i] + x[i]],
     b      |-> [i \in Dims |-> model.b[i] + x[i] * reward]]

\* SimpleLinUCB.update: A_diag[i] += x[i] ** 2; b[i] += x[i] * reward
Update(model, x, reward) ==
    [A_diag |-> [i \in Dims |-> model.A_diag[i] + x[i] * x[i]],
     b      |-> [i \in Dims |-> model.b[i] + x[i] * reward]]

RECURSIVE ProductOver(_, _)
ProductOver(S, f) ==
    IF S = {} THEN 1
    ELSE LET i == CHOOSE k \in S : TRUE
         IN f[i] * ProductOver(S \ {i}, f)

\* Variant: the score is the point estimate without the confidence term.
ScorePartsNoBonus(model, x) ==
    LET used == {i \in Dims : x[i] # 0}
        D == ProductOver(used, model.A_diag)
        term(i) == IF i \in used
                   THEN model.b[i] * x[i] * (D \div model.A_diag[i]) ELSE 0
    IN [P |-> term(1) + term(2) + term(3) + term(4) + term(5),
        Q |-> 0,
        D |-> D]

\* SimpleLinUCB.score(x) with alpha = 1.0, kept exactly as
\*   P / (10 * D) + sqrt(Q / D)
\* where D is the product of the A_diag[i] with x[i] # 0 (the other terms
\* of both sums are 0), P = sum b[i] * x[i] * D / A_diag[i] in tenths, and
\* Q = sum x[i]^2 * D / A_diag[i].
ScoreParts(model, x) ==
    LET used == {i \in Dims : x[i] # 0}
        D == ProductOver(used, model.A_diag)
        term(i) == IF i \in used
                   THEN model.b[i] * x[i] * (D \div model.A_diag[i]) ELSE 0
        conf(i) == IF i \in used
                   THEN x[i] * x[i] * (D \div model.A_diag[i]) ELSE 0
    IN [P |-> term(1) + term(2) + term(3) + term(4) + term(5),
        Q |-> conf(1) + conf(2) + conf(3) + conf(4) + conf(5),
        D |-> D]

\* sqrt(r1) >= d + sqrt(r2) for integers r1, r2 >= 0 and d, without roots.
RootGeq(r1, d, r2) ==
    IF d >= 0
    THEN LET l == r1 - d * d - r2
         IN l >= 0 /\ l * l >= 4 * d * d * r2
    ELSE LET k == r2 - r1 - d * d
         IN k <= 0 \/ 4 * d * d * r1 >= k * k

\* s1 >= s2 for two scores in the form of ScoreParts: both sides are
\* multiplied by 10 * D1 * D2.
ScoreGeq(s1, s2) ==
    RootGeq(s1.Q * 100 * s1.D * s2.D * s2.D,
            s2.P * s1.D - s1.P * s2.D,
            s2.Q * 100 * s1.D * s1.D * s2.D)

\* A model as SimpleLinUCB() builds it.
LinUCBInit ==
    /\ SchedulerAtRest
    /\ logFile = [kind |-> "csv", pos |-> 0]
    /\ modelFile = [state |-> "absent", mtime |-> 0, content |-> "empty"]
    /\ cf_model = CFModelNew(modelFile)
    /\ flow = FlowIdle
    /\ cli = CliIdle
    /\ online = OnlineIdle
    /\ call = CallIdle
    /\ linucb = LinUCBIdle

\* model.update(x, reward)
UpdateCall(x, reward) ==
    /\ linucb.n < MaxUpdates
    /\ linucb' = [model |-> Update(linucb.model, x, reward),
                  n |-> linucb.n + 1, x |-> x, reward |-> reward]
    /\ UNCHANGED <<logFile, modelFile, schedVars, cf_model, flow, cli,
                   online, call>>

LinUCBNext == \E x \in UpdateVectors, reward \in UpdateRewards :
                 UpdateCall(x, reward)

LinUCBSpec == LinUCBInit /\ [][LinUCBNext]_vars

\* ------------------------------------------------------------- properties
Finished(r) == pc[r] \in {"rank", "returned"}

\* C1: over all interleavings of trigger checks and background threads, at
\* most one thread is inside _train_background.
C1_AtMostOneJob ==
    Cardinality({r \in Requests : job[r].pc \in Executing}) <= 1

C1_Witness ==
    \E r, q \in Requests :
        /\ r # q
        /\ job[r].pc = "train"
        /\ path[q] = "busy"
        /\ pc[q] = "returned"

\* C2: the step that ends a thread, after train() returned or raised, leaves
\* _TRAINING False; a later check can then start a thread again.
C2_IdleAfterJob ==
    [][\A r \in Requests :
          (job[r].pc # "done" /\ job'[r].pc = "done") => ~TRAINING']_vars

C2_Witness ==
    \E r, q \in Requests :
        /\ r # q
        /\ job[r].pc = "done"
        /\ job[r].outcome = "raised"
        /\ job[q].pc = "train"

\* C3: the watermark a successful thread writes is the count its trigger
\* check read, whatever was appended to the log meanwhile.
C3_WatermarkIsTriggerCount ==
    [][\A r \in Requests :
          (job[r].pc = "save_dump" /\ job'[r].pc # "save_dump")
             => metaFile' = [state |-> "json", count |-> pos[r]]]_vars

C3_Witness ==
    \E r \in Requests :
        /\ job[r].pc = "done"
        /\ job[r].outcome = "ok"
        /\ job[r].grown
        /\ metaFile = [state |-> "json", count |-> pos[r]]

\* C4: the metadata file is written only by a thread whose train() call
\* returned; a failed thread and the trigger check leave it alone.
C4_WatermarkOnlyOnSuccess ==
    [][metaFile' # metaFile =>
          \E r \in Requests :
              /\ job[r].outcome = "ok"
              /\ job[r].pc \in {"save_open", "save_dump"}
              /\ job'[r].pc # job[r].pc]_vars

C4_Witness ==
    \E r \in Requests :
        /\ job[r].pc = "done"
        /\ job[r].outcome = "raised"
        /\ metaFile = [state |-> "json", count |-> last[r]]
        /\ \A q \in Requests : q # r => (pc[q] = "returned" /\ ~Launched(q))

\* C5: a check that found _TRAINING set starts no thread, then or later: the
\* threads started are exactly those of the checks that flipped the flag.
C5_BusyCheckLaunchesNothing ==
    \A r \in Requests :
        /\ path[r] = "busy" => ~Launched(r)
        /\ Launched(r) => path[r] = "launch"

C5_Witness ==
    \E r, q \in Requests :
        /\ r # q
        /\ path[q] = "busy"
        /\ pc[q] = "returned"
        /\ job[r].pc = "done"
        /\ ~Launched(q)
        /\ ~TRAINING

\* C6: an exception of train() never leaves _train_background, and the
\* trigger check that started the thread returns normally.
C6_TrainingFailureSwallowed ==
    \A r \in Requests :
        job[r].outcome = "raised" =>
            /\ job[r].exc = "none"
            /\ Finished(r)

C6_Witness ==
    \E r \in Requests :
        /\ job[r].pc = "done"
        /\ job[r].outcome = "raised"
        /\ pc[r] = "returned"

\* C7: _TRAIN_LOCK is held only around the test-and-set of _TRAINING and
\* around its reset, never while train() runs.
C7_LockOnlyForFlagAccess ==
    \A r \in Requests :
        /\ lockOwner = <<"req", r>> => pc[r] = "flip"
        /\ lockOwner = <<"job", r>> => job[r].pc = "reset"
        /\ job[r].pc = "train" =>
              lockOwner \notin {<<"req", r>>, <<"job", r>>}

C7_Witness ==
    \E r, q \in Requests :
        /\ job[r].pc = "train"
        /\ lockOwner = <<"req", q>>

C9_LaunchIffDeltaMeetsThreshold ==
    \A r \in Requests :
        Finished(r) =>
            /\ Launched(r) <=>
                  (pos[r] - last[r] >= DefaultThreshold /\ path[r] # "busy")
            /\ (last[r] = 5 /\ pos[r] = 14) => ~Launched(r)
            /\ (last[r] = 5 /\ pos[r] = 15 /\ path[r] # "busy")
                  => Launched(r)

C9_Witness ==
    \E r, q \in Requests :
        /\ pc[r] = "returned" /\ last[r] = 5 /\ pos[r] = 14 /\ ~Launched(r)
        /\ pc[q] = "returned" /\ last[q] = 5 /\ pos[q] = 15 /\ Launched(q)

\* C10: a trigger check that reads a watermark greater than the count
\* decides as if the watermark were 0: it starts a thread iff the count
\* alone meets the threshold (no thread running).
C10_ResetTreatedAsZero ==
    \A r \in Requests :
        (Finished(r) /\ last[r] > pos[r] /\ path[r] # "busy")
            => (Launched(r) <=> pos[r] >= DefaultThreshold)

\* ------------------------------------------ properties: ranking stages
\* C11: no load by the scorer ever meets a partially written artifact.
C11_LoadNeverSeesPartial ==
    ~(flow.pc = "raised" /\ flow.exc = "EOFError")

\* C12: after the artifact on disk is created or replaced, at most one read
\* of the long-lived scorer (available, score) still reflects the old state.
C12_AtMostOneStaleRead ==
    flow.stale <= 1

\* C13: in every reachable state in which the artifact file does not exist,
\* available() returns false.
C13_AbsentMeansUnavailable ==
    modelFile.state = "absent" => ~available(cf_model)

C13_Witness ==
    /\ modelFile.state = "absent"
    /\ flow.pc = "online"
    /\ flow.user # ""
    /\ ~flow.avail

\* An id is absent from its index map, or its offset lies outside its matrix.
NoScoreCase(cfm, user_id, item_id) ==
    LET art == Artifacts[cfm.content]
    IN \/ user_id \notin DOMAIN art.user_index
       \/ item_id \notin DOMAIN art.item_index
       \/ art.user_index[user_id] >= Len(art.user_factors)
       \/ art.item_index[item_id] >= Len(art.item_factors)

\* C14: score(user_id, item_id) gives 0 and does not raise whenever an id is
\* absent from its index map or its offset lies outside its factor matrix.
C14_ScoreZeroWithoutRaising ==
    /\ \A u \in FlowUsers \cup {"u2"}, it \in {"a", "b", "z"} :
          NoScoreCase(cf_model, u, it) => ScoreLookup(cf_model, u, it) = 0
    /\ (flow.pc = "raised" /\ flow.scorer = "offline" /\ flow.i >= 1)
          => ~NoScoreCase(cf_model, flow.user,
                          OfflineCandId(flow.pool[flow.i]))

\* C15: while the artifact is missing or unreadable, a run_flow call with a
\* user identity does not raise, and one that returns with the artifact
\* missing was ranked by the online scorer.
C15_FallbackNeverRaises ==
    /\ (flow.user # "" /\ modelFile.state \in {"absent", "partial"})
          => flow.pc # "raised"
    /\ (flow.user # "" /\ modelFile.state = "absent"
          /\ flow.pc = "returned") => flow.scorer = "online"

\* C16: run_flow ranks with the offline scorer when there is a user identity
\* and the model is available, with the online scorer when there is a user
\* identity and it is not, with none (every cf_score feature 0) when there
\* is no user identity; the bandit rerank always runs afterwards.
C16_ScorerChoiceThenBandit ==
    flow.pc \notin {"idle", "branch"} =>
        /\ flow.scorer = IF flow.user = "" THEN "none"
                         ELSE IF flow.avail THEN "offline" ELSE "online"
        /\ flow.user = "" =>
              \A i \in 1 .. Len(flow.list) : CfFeature(flow.list[i]) = 0
        /\ flow.pc = "returned" => flow.bandit
        /\ flow.pc # "raised"

\* C17: with an empty candidate pool no ranking stage raises and the final
\* ranked list is empty.
C17_EmptyPoolEmptyResult ==
    (flow.pc \notin {"idle"} /\ flow.pool = <<>>) =>
        /\ flow.pc # "raised"
        /\ flow.pc = "returned" => flow.list = <<>>

\* C22: CFModel.rerank returns the candidates in non-increasing order of
\* the score score() gave them, each carrying that score as cf_score, cut to
\* the first k; candidates with equal scores keep their input order.
C22_RerankSortedStableTopK ==
    (flow.scorer = "offline" /\ flow.pc = "bandit") =>
        LET out == flow.list
            n == Len(flow.pool)
            given(i) == flow.scored[i][1]
            idx(j) == CHOOSE i \in 1 .. n :
                         flow.pool[i] = [out[j] EXCEPT !.cf_score = <<>>]
        IN /\ Len(flow.scored) = n
           /\ Len(out) = IF flow.k < n THEN flow.k ELSE n
           /\ \A i \in 1 .. n :
                 \E content \in {"aligned", "misaligned", "trained"} :
                    given(i) = ScoreLookup([loaded |-> TRUE, mtime |-> 0,
                                            content |-> content],
                                           flow.user,
                                           OfflineCandId(flow.pool[i]))
           /\ \A j \in 1 .. Len(out) :
                 /\ \E i \in 1 .. n :
                       flow.pool[i] = [out[j] EXCEPT !.cf_score = <<>>]
                 /\ out[j].cf_score = <<given(idx(j))>>
           /\ \A j1, j2 \in 1 .. Len(out) :
                 j1 < j2 =>
                    /\ given(idx(j1)) >= given(idx(j2))
                    /\ given(idx(j1)) = given(idx(j2)) => idx(j1) < idx(j2)
           /\ \A i \in 1 .. n :
                 (\A j \in 1 .. Len(out) : idx(j) # i) =>
                    \A j \in 1 .. Len(out) :
                       /\ given(idx(j)) >= given(i)
                       /\ given(idx(j)) = given(i) => idx(j) < i

C22_Witness ==
    /\ flow.scorer = "offline"
    /\ flow.pc = "bandit"
    /\ flow.user = "u1"
    /\ flow.k = 2
    /\ flow.pool = <<Cand("", "b"), Cand("", "z"), Cand("", "a")>>
    /\ flow.list = <<[Cand("", "a") EXCEPT !.cf_score = <<5>>],
                     [Cand("", "b") EXCEPT !.cf_score = <<4>>]>>

\* ------------------------------------------- properties: online scorer
\* The identity key score_candidates gave an input candidate.
InputIdOf(candidates, c) ==
    CandIds(candidates)[CHOOSE i \in 1 .. Len(candidates) : candidates[i] = c]

\* C18: a score_candidates call does not raise, and with k at least the
\* number of candidates every input candidate appears in its output.
C18_EveryCandidateScored ==
    online.pc = "done" =>
        /\ ~online.result.raised
        /\ online.k >= Len(online.cands) =>
             \A i \in 1 .. Len(online.cands) :
                \E j \in 1 .. Len(online.result.ranked) :
                    online.result.ranked[j][1] = online.cands[i]

\* C19: a score_candidates call returns, for every candidate in its output,
\* the neighbour sum of similarity times reward, or 0.1 times popularity
\* when that sum is 0; the two-user example scores one third.
C19_ScoreIsNeighbourSumOrFallback ==
    LET stated(rows, user_id, cid) ==
            LET n == NeighbourSum(rows, user_id, cid)
            IN IF n = 0 THEN PopularityFallback(rows, cid) ELSE n
        example == <<Row("u1", "a", 10), Row("u1", "b", 10),
                     Row("u2", "b", 10), Row("u2", "c", 10)>>
    IN online.pc = "done" =>
        /\ ~online.result.raised
        /\ \A j \in 1 .. Len(online.result.ranked) :
              online.result.ranked[j][2] =
                  stated(online.rows, online.user,
                         InputIdOf(online.cands, online.result.ranked[j][1]))
        /\ 3 * stated(example, "u1", "c") = ScoreScale(example)

\* C20: in the output of one score_candidates call every candidate with a
\* positive neighbour sum stands before every candidate scored by the
\* popularity fallback alone.
C20_NeighbourSumAboveFallback ==
    online.pc = "done" =>
        LET ranked == online.result.ranked
            sum(j) == NeighbourSum(online.rows, online.user,
                                   InputIdOf(online.cands, ranked[j][1]))
            popular(j) == HasPopularity(online.rows,
                                   InputIdOf(online.cands, ranked[j][1]))
        IN /\ ~online.result.raised
           /\ \A j1, j2 \in 1 .. Len(ranked) :
                 sum(j1) > 0 /\ sum(j2) = 0 /\ popular(j2) => j1 < j2

\* ------------------------------------------ properties: function calls
\* C21: _jaccard(a, b) is 0 when either set is empty or the sets are
\* disjoint, 1 when the sets are identical and non-empty, and otherwise
\* |a intersect b| / |a union b|.
C21_JaccardValues ==
    (call.fn = "jaccard" /\ call.pc = "done") =>
        LET a == call.a
            b == call.b
            num == call.out[1]
            den == call.out[2]
        IN /\ den > 0
           /\ (a = {} \/ b = {} \/ a \cap b = {}) => num = 0
           /\ (a = b /\ a # {}) => num = den
           /\ (a # {} /\ b # {}) =>
                 num * Cardinality(a \cup b) = Cardinality(a \cap b) * den

C21_Witness ==
    /\ call.fn = "jaccard"
    /\ call.pc = "done"
    /\ call.a = {"a", "b"}
    /\ call.b = {"b", "c"}
    /\ call.out = <<1, 3>>

\* C23 as stated: price_fit is -1 exactly when the candidate's max is below
\* the user's min or the candidate's min is above the user's max, +1 when
\* the user asked for a price interval and there is no such conflict, and 0
\* when neither side has price data.
C23_PriceFitAsStated ==
    (call.fn = "feature" /\ call.pc = "done") =>
        LET p == call.c.price_range
            u == call.query.price_range
            conflict ==
               /\ p.kind = "range"
               /\ \/ u.min # <<>> /\ p.hi < u.min[1]
                  \/ u.max # <<>> /\ p.lo > u.max[1]
            asked == u.min # <<>> \/ u.max # <<>>
        IN /\ call.out[4] = -1 <=> conflict
           /\ (asked /\ ~conflict) => call.out[4] = 1
           /\ (~asked /\ p.kind # "range") => call.out[4] = 0

\* C23 amended: a bound that is 0 counts as missing.  price_fit is 0 when
\* the user gave no non-zero bound; otherwise it is -1 exactly when a
\* non-zero candidate max is below a non-zero user min or a non-zero
\* candidate min is above a non-zero user max, and +1 in every other case.
C23_PriceFitZeroIsMissing ==
    (call.fn = "feature" /\ call.pc = "done") =>
        LET p == call.c.price_range
            u == call.query.price_range
            given(bound) == bound # <<>> /\ bound # <<0>>
            conflict ==
               /\ p.kind = "range"
               /\ \/ given(u.min) /\ p.hi # 0 /\ p.hi < u.min[1]
                  \/ given(u.max) /\ p.lo # 0 /\ p.lo > u.max[1]
            asked == given(u.min) \/ given(u.max)
        IN /\ call.out[4] \in {-1, 0, 1}
           /\ call.out[4] = 0 <=> ~asked
           /\ call.out[4] = -1 <=> (asked /\ conflict)

C23_Witness ==
    /\ call.fn = "feature"
    /\ call.pc = "done"
    /\ call.c.price_range = PriceString("range", 5, 9)
    /\ call.query.price_range = [min |-> <<>>, max |-> <<3>>]
    /\ call.out[4] = -1

\* C30: with a fresh model bandit_rerank orders the candidates by
\* non-increasing sum of squared feature values, ties in input order,
\* returns at most top_k of them, and ranks the larger of two distances first
\* when two candidates differ in distance_km only.
C30_FreshBanditOrder ==
    (call.fn = "bandit" /\ call.pc = "done") =>
        LET out == call.out
            n == Len(call.cands)
            sumsq(c) ==
               LET x == FeatureVector(c, call.query)
               IN x[1] * x[1] + x[2] * x[2] + x[3] * x[3] + x[4] * x[4]
                  + x[5] * x[5]
            idx(j) == CHOOSE i \in 1 .. n : call.cands[i] = out[j]
        IN /\ Len(out) = IF call.k < n THEN call.k ELSE n
           /\ \A j \in 1 .. Len(out) :
                 \E i \in 1 .. n : call.cands[i] = out[j]
           /\ \A j1, j2 \in 1 .. Len(out) :
                 j1 < j2 =>
                    /\ sumsq(out[j1]) >= sumsq(out[j2])
                    /\ sumsq(out[j1]) = sumsq(out[j2]) => idx(j1) < idx(j2)
           /\ \A i \in 1 .. n :
                 (\A j \in 1 .. Len(out) : idx(j) # i) =>
                    \A j \in 1 .. Len(out) :
                       /\ sumsq(out[j]) >= sumsq(call.cands[i])
                       /\ sumsq(out[j]) = sumsq(call.cands[i]) => idx(j) < i
           /\ \A j1, j2 \in 1 .. Len(out) :
                 (/\ [out[j1] EXCEPT !.distance_km = <<0>>]
                        = [out[j2] EXCEPT !.distance_km = <<0>>]
                  /\ out[j1].distance_km[1] > out[j2].distance_km[1])
                    => j1 < j2

C30_Witness ==
    /\ call.fn = "bandit"
    /\ call.pc = "done"
    /\ call.cands = <<BanditCand("a", 4, 0, PriceString("empty", 0, 0), <<>>),
                      BanditCand("a", 4, 2, PriceString("empty", 0, 0), <<>>)>>
    /\ call.out = <<BanditCand("a", 4, 2, PriceString("empty", 0, 0), <<>>),
                    BanditCand("a", 4, 0, PriceString("empty", 0, 0), <<>>)>>

\* C25: a kept candidate carries a computed distance only when the user's
\* and the restaurant's coordinates are all present; otherwise what it
\* carries as distance differs from a distance of zero.
C25_UnknownDistanceIsNotZero ==
    (call.fn = "retrieve" /\ call.pc = "done") =>
        LET present == /\ call.user_loc.lat # <<>>
                       /\ call.user_loc.lng # <<>>
                       /\ call.meta.latitude # <<>>
                       /\ call.meta.longitude # <<>>
        IN /\ present =>
                 call.out.distance_km =
                     <<GridDistance(call.user_loc.lat[1], call.user_loc.lng[1],
                                    call.meta.latitude[1],
                                    call.meta.longitude[1])>>
           /\ ~present => call.out.distance_km # <<0>>

\* ------------------------------------------------ properties: SimpleLinUCB
\* C24 as stated: for the bias-only vector and any reward > 0, the score of
\* that vector after update(vector, reward) is at least its score before.
C24_BiasScoreNeverDrops ==
    [][(linucb'.n = linucb.n + 1 /\ linucb'.x = BiasOnly
           /\ linucb'.reward > 0)
        => ScoreGeq(ScoreParts(linucb'.model, BiasOnly),
                    ScoreParts(linucb.model, BiasOnly))]_vars

\* C24 amended: on a freshly constructed model, the score of the bias-only
\* vector after update(vector, reward) is at least its score before exactly
\* when reward >= 2 - sqrt(2); that is so for reward 1.0.
C24_FreshBiasScoreThreshold ==
    [][(linucb.n = 0 /\ linucb'.n = 1 /\ linucb'.x = BiasOnly)
        => /\ ScoreGeq(ScoreParts(linucb'.model, BiasOnly),
                       ScoreParts(linucb.model, BiasOnly))
              <=> \/ linucb'.reward >= 20
                  \/ (20 - linucb'.reward) * (20 - linucb'.reward) <= 200
           /\ linucb'.reward = 10
              => ScoreGeq(ScoreParts(linucb'.model, BiasOnly),
                          ScoreParts(linucb.model, BiasOnly))]_vars

C24_Witness ==
    /\ linucb.n = 1
    /\ linucb.x = BiasOnly
    /\ linucb.reward = 10
    /\ linucb.model.A_diag[1] = 2
    /\ linucb.model.b[1] = 10

\* C29: after any sequence of update calls every A_diag entry is at least 1;
\* each update adds x_i squared to A_diag_i and x_i * reward to b_i.
C29_ADiagAtLeastOne ==
    /\ [](\A i \in Dims : linucb.model.A_diag[i] >= 1)
    /\ [][linucb'.n = linucb.n + 1 =>
            \A i \in Dims :
               /\ linucb'.model.A_diag[i]
                     = linucb.model.A_diag[i] + linucb'.x[i] * linucb'.x[i]
               /\ linucb'.model.b[i]
                     = linucb.model.b[i] + linucb'.x[i] * linucb'.reward]_vars

C29_Witness ==
    /\ linucb.n = 2
    /\ linucb.x = <<1, 4, -2, 1, 3>>
    /\ linucb.model.A_diag[3] = 6

\* ------------------------------------ properties: retrain scheduler, II
\* C26: a training job whose train() call returned has stored the artifact
\* at MODEL_PATH, and the interaction log has not been overwritten.
C26_ArtifactStoredLogKept ==
    \A r \in Requests :
        job[r].outcome = "ok" =>
            /\ modelFile.state = "artifact"
            /\ logFile.kind # "pickle"

\* C27: at the step in which a trigger check decides to launch, the
\* watermark it compared is the one stored now, and the current positive
\* count minus the stored watermark meets the threshold.
C27_LaunchOnCurrentWatermark ==
    [][\A r \in Requests :
          (pc[r] = "flip" /\ pc'[r] = "start") =>
             /\ last[r] = _load_meta(metaFile)
             /\ CountReadable(logFile)
             /\ ~BelowThreshold(_count_positive(logFile),
                                _load_meta(metaFile), DefaultThreshold)]_vars

====
